---- MODULE Spec2Model ----
(***************************************************************************)
(* Model of animaloc/eval/stitchers.py: Stitcher (dense maps) and          *)
(* FasterRCNNStitcher (box detections).                                    *)
(*                                                                         *)
(* One stitcher object is constructed and called once on one image.  The   *)
(* steps of __call__ are separate actions, so that the intermediate        *)
(* values (patches, model outputs, patched map) are visible as state.      *)
(*                                                                         *)
(* Tensors are modelled by their shape and integer content.  A dense map   *)
(* is a record [h, w, px] with px a function on (0..h-1) \X (0..w-1); the  *)
(* output-channel axis is not modelled (fold, max and div act on each      *)
(* channel alike).  The result of torch.div is an exact fraction           *)
(* [num, den], den = 0 standing for inf / nan.  The stitcher is built with  *)
(* up = False (the default), so step 4 of __call__ does nothing.           *)
(*                                                                         *)
(* ImageToPatches (animaloc.data) is not part of the sources at hand; the  *)
(* tiling it computes is modelled from section 4.1 of the specification.   *)
(***************************************************************************)
EXTENDS Integers, Sequences, FiniteSets, TLC

VARIABLES
    kind,       \* class of the stitcher: "Stitcher" or "FasterRCNNStitcher"
    args,       \* constructor arguments (self.size, self.overlap, ...)
    image,      \* shape of the image given to __call__: [C, H, W]
    model,      \* behaviour of the opaque model on this image
    pc,         \* position in __init__ / __call__
    ncol,       \* self._ncol
    nrow,       \* self._nrow
    npatches,   \* number of patches returned by make_patches
    batch,      \* number of batches drawn from the dataloader so far
    calls,      \* log of model invocations: patch indices, and whether it raised
    maps,       \* the list `maps` built by _inference
    patched,    \* value returned by _patch_maps
    reduced,    \* FasterRCNNStitcher._reduce: detections kept by nms
    result,     \* value returned by __call__
    error       \* the exception that left __init__ / __call__, if any

vars == <<kind, args, image, model, pc, ncol, nrow, npatches, batch, calls,
          maps, patched, reduced, result, error>>

---------------------------------------------------------------------------
(* Bounds of the model *)

MaxH == 4
MaxW == 3
MaxOverlap == 2
MaxBatch == 2

PatchSizes == {<<2, 2>>, <<2, 3>>, <<3, 2>>}
DownRatios == {1, 2}
Channels == {1, 3}
Reductions == {"sum", "mean", "max", "min"}

\* Behaviours of the opaque dense model: the output for the i-th patch (in
\* grid order) at local pixel (r, c) is base + step*(i-1) + tex*(r*kw + c).
DenseModels ==
    { [base |->  1, step |-> 0, tex |-> 0],
      [base |-> -3, step |-> 0, tex |-> 0],
      [base |->  1, step |-> 1, tex |-> 0],
      [base |-> -3, step |-> 1, tex |-> 1] }

---------------------------------------------------------------------------
(* Helpers *)

Min(a, b) == IF a <= b THEN a ELSE b

Max(a, b) == IF a >= b THEN a ELSE b

RECURSIVE SumSeq(_)
SumSeq(s) == IF Len(s) = 0 THEN 0 ELSE s[1] + SumSeq(Tail(s))

RECURSIVE MaxSeq(_, _)
MaxSeq(s, init) == IF Len(s) = 0 THEN init ELSE MaxSeq(Tail(s), Max(init, s[1]))

RECURSIVE Flatten(_)
Flatten(ss) == IF Len(ss) = 0 THEN <<>> ELSE ss[1] \o Flatten(Tail(ss))

RECURSIVE Gcd(_, _)
Gcd(a, b) == IF b = 0 THEN a ELSE Gcd(b, a % b)

Abs(a) == IF a < 0 THEN -a ELSE a

Sign(a) == IF a > 0 THEN 1 ELSE IF a < 0 THEN -1 ELSE 0

\* torch.div on two numbers: the exact quotient in lowest terms; a zero
\* divisor gives inf, -inf or nan (den = 0, num the sign of the dividend).
Frac(a, b) ==
    IF b = 0 THEN [num |-> Sign(a), den |-> 0]
    ELSE LET g == Gcd(Abs(a), Abs(b))
         IN  [num |-> Sign(b) * (a \div g), den |-> Abs(b) \div g]

NoError == [type |-> "none", where |-> "none", note |-> <<>>]

Raised(t, w) == [type |-> t, where |-> w, note |-> <<>>]

NoMap == [h |-> 0, w |-> 0, px |-> <<>>]

---------------------------------------------------------------------------
(* Tiling plan (ImageToPatches) *)

\* Number of patches along one axis of length len: the smallest count such
\* that patches of size p offset by the stride p - o cover [0, len).
NumTiles(len, p, o) ==
    IF len <= p THEN 1 ELSE 1 + ((len - p + (p - o) - 1) \div (p - o))

\* ImageToPatches(image, size, overlap): the stride must be positive.
TilingOK(size, o) == size[1] - o > 0 /\ size[2] - o > 0

\* self._ncol counts the patches along the image height and self._nrow
\* along its width: _patch_maps pairs _ncol with kernel_size[0].
TilesH(img, size, o) == NumTiles(img.H, size[1], o)

TilesW(img, size, o) == NumTiles(img.W, size[2], o)

\* Grid position (row, column), 0-based, of the i-th patch (1-based),
\* row-major in a grid with nw columns.
GridPos(i, nw) == <<(i - 1) \div nw, (i - 1) % nw>>

\* get_limits(): x_min and y_min of the i-th patch.
LimitOf(i, size, o, nw) ==
    [x_min |-> GridPos(i, nw)[2] * (size[2] - o),
     y_min |-> GridPos(i, nw)[1] * (size[1] - o)]

---------------------------------------------------------------------------
(* The dataloader: consecutive batches of batch_size patches *)

NumBatches(n, bs) == (n + bs - 1) \div bs

\* Patch indices of the b-th batch (1-based), in order.
BatchOf(b, n, bs) ==
    [t \in 1..(Min(b * bs, n) - (b - 1) * bs) |-> (b - 1) * bs + t]

---------------------------------------------------------------------------
(* Stitcher: dense maps *)

KernelSize(a) == <<a.size[1] \div a.down_ratio, a.size[2] \div a.down_ratio>>

FoldStride(a) ==
    <<KernelSize(a)[1] - (a.overlap \div a.down_ratio),
      KernelSize(a)[2] - (a.overlap \div a.down_ratio)>>

OutputSize(a, nc, nr) ==
    <<nc * KernelSize(a)[1] - (((nc - 1) * a.overlap) \div a.down_ratio),
      nr * KernelSize(a)[2] - (((nr - 1) * a.overlap) \div a.down_ratio)>>

\* The model's output for the i-th patch: a map of the kernel size.
ModelOutput(m, a, i) ==
    LET k == KernelSize(a)
    IN  [h |-> k[1], w |-> k[2],
         px |-> [p \in (0..(k[1] - 1)) \X (0..(k[2] - 1)) |->
                    m.base + m.step * (i - 1) + m.tex * (p[1] * k[2] + p[2])]]

\* F.fold: number of sliding blocks along one axis.
NumBlocks(out, k, s) == ((out - k) \div s) + 1

\* F.fold raises unless kernel and stride are positive, at least one block
\* fits along each axis, and the input holds exactly one column per block.
FoldOK(n, out, k, s) ==
    /\ k[1] > 0 /\ k[2] > 0
    /\ s[1] > 0 /\ s[2] > 0
    /\ NumBlocks(out[1], k[1], s[1]) >= 1
    /\ NumBlocks(out[2], k[2], s[2]) >= 1
    /\ NumBlocks(out[1], k[1], s[1]) * NumBlocks(out[2], k[2], s[2]) = n

\* Whether the block at offset off of size k covers coordinate y.
Covers(off, k, y) == off <= y /\ y < off + k

\* F.fold: block l (row-major) is added at (row * stride, col * stride).
Fold(ms, out, k, s) ==
    LET lw == NumBlocks(out[2], k[2], s[2])
        Off(l) == <<GridPos(l, lw)[1] * s[1], GridPos(l, lw)[2] * s[2]>>
    IN  [h |-> out[1], w |-> out[2],
         px |-> [p \in (0..(out[1] - 1)) \X (0..(out[2] - 1)) |->
                    SumSeq([l \in 1..Len(ms) |->
                        IF /\ Covers(Off(l)[1], k[1], p[1])
                           /\ Covers(Off(l)[2], k[2], p[2])
                        THEN ms[l].px[<<p[1] - Off(l)[1], p[2] - Off(l)[2]>>]
                        ELSE 0])]]

\* _max_fold, fn: range(0, output_size, stride) without its last element.
RangeLen(out, s) == IF out <= 0 THEN 0 ELSE (out + s - 1) \div s

Fn(out, k, s) ==
    [t \in 1..(RangeLen(out, s) - 1) |-> <<(t - 1) * s, (t - 1) * s + k>>]

\* _max_fold, locs: [[*h, *w] for h in fn(0) for w in fn(1)].
Locs(out, k, s) ==
    LET fh == Fn(out[1], k[1], s[1])
        fw == Fn(out[2], k[2], s[2])
    IN  [t \in 1..(Len(fh) * Len(fw)) |->
            <<fh[((t - 1) \div Len(fw)) + 1], fw[((t - 1) % Len(fw)) + 1]>>]

\* _max_fold raises when the output size is negative, the stride is zero,
\* or a paired window is clipped by the output (shape mismatch on
\* assignment).
MaxFoldOK(n, out, k, s) ==
    /\ out[1] >= 0 /\ out[2] >= 0
    /\ s[1] # 0 /\ s[2] # 0
    /\ (s[1] > 0 /\ s[2] > 0) =>
         \A t \in 1..Min(n, Len(Locs(out, k, s))) :
            /\ Locs(out, k, s)[t][1][2] <= out[1]
            /\ Locs(out, k, s)[t][2][2] <= out[2]

\* _max_fold: elementwise maximum of a zero map and every paired patch
\* written into a zero map at its window.
MaxFold(ms, out, k, s) ==
    LET locs == IF s[1] > 0 /\ s[2] > 0 THEN Locs(out, k, s) ELSE <<>>
        n    == Min(Len(ms), Len(locs))
    IN  [h |-> out[1], w |-> out[2],
         px |-> [p \in (0..(out[1] - 1)) \X (0..(out[2] - 1)) |->
                    MaxSeq([t \in 1..n |->
                        IF /\ Covers(locs[t][1][1], k[1], p[1])
                           /\ Covers(locs[t][2][1], k[2], p[2])
                        THEN ms[t].px[<<p[1] - locs[t][1][1], p[2] - locs[t][2][1]>>]
                        ELSE 0], 0)]]

\* out_map[:, :, 0:dh, 0:dw]
Crop(m, dh, dw) ==
    [h |-> Min(m.h, dh), w |-> Min(m.w, dw),
     px |-> [p \in (0..(Min(m.h, dh) - 1)) \X (0..(Min(m.w, dw) - 1)) |-> m.px[p]]]

\* Stitcher._patch_maps on the concatenated list ms of patch maps.
PatchMapsOK(a, nc, nr, ms) ==
    IF a.reduction = "max"
    THEN MaxFoldOK(Len(ms), OutputSize(a, nc, nr), KernelSize(a), FoldStride(a))
    ELSE FoldOK(Len(ms), OutputSize(a, nc, nr), KernelSize(a), FoldStride(a))

PatchMaps(a, img, nc, nr, ms) ==
    Crop(IF a.reduction = "max"
         THEN MaxFold(ms, OutputSize(a, nc, nr), KernelSize(a), FoldStride(a))
         ELSE Fold(ms, OutputSize(a, nc, nr), KernelSize(a), FoldStride(a)),
         img.H \div a.down_ratio, img.W \div a.down_ratio)

\* _reduce: torch.ones(C, dh, dw), the image ImageToPatches is built on.
OnesImage(a, img) ==
    [C |-> img.C, H |-> img.H \div a.down_ratio, W |-> img.W \div a.down_ratio]

\* _reduce: channel 1 of the patches of the ones image, cut with the
\* downsized patch size and overlap; a patch is zero where it extends past
\* the image.
OnesPatches(a, img) ==
    LET o  == OnesImage(a, img)
        k  == KernelSize(a)
        ov == a.overlap \div a.down_ratio
        nw == TilesW(o, k, ov)
    IN  [i \in 1..(TilesH(o, k, ov) * nw) |->
            [h |-> k[1], w |-> k[2],
             px |-> [p \in (0..(k[1] - 1)) \X (0..(k[2] - 1)) |->
                        IF /\ GridPos(i, nw)[1] * (k[1] - ov) + p[1] < o.H
                           /\ GridPos(i, nw)[2] * (k[2] - ov) + p[2] < o.W
                        THEN 1 ELSE 0]]]

\* _reduce: the exception raised while norm_map is built, "none" if none.
NormMapError(a, img, nc, nr) ==
    IF a.reduction = "mean"
    THEN IF ~TilingOK(KernelSize(a), a.overlap \div a.down_ratio)
         THEN "ConfigurationError"
         ELSE IF img.C < 2
         THEN "IndexError"
         ELSE IF ~PatchMapsOK(a, nc, nr, OnesPatches(a, img))
         THEN "RuntimeError"
         ELSE "none"
    ELSE IF img.C < 2 THEN "IndexError" ELSE "none"

\* _reduce: norm_map.
NormMap(a, img, nc, nr) ==
    IF a.reduction = "mean"
    THEN PatchMaps(a, img, nc, nr, OnesPatches(a, img))
    ELSE [h |-> OnesImage(a, img).H, w |-> OnesImage(a, img).W,
          px |-> [p \in (0..(OnesImage(a, img).H - 1))
                        \X (0..(OnesImage(a, img).W - 1)) |-> 1]]

\* Broadcasting of torch.div over the two spatial axes.
BroadcastDim(x, y) == IF x = y THEN x ELSE IF x = 1 THEN y ELSE x

Broadcastable(m, n) ==
    /\ (m.h = n.h \/ m.h = 1 \/ n.h = 1)
    /\ (m.w = n.w \/ m.w = 1 \/ n.w = 1)

Div(m, n) ==
    LET At(t, p) == t.px[<<IF t.h = 1 THEN 0 ELSE p[1],
                           IF t.w = 1 THEN 0 ELSE p[2]>>]
    IN  [h |-> BroadcastDim(m.h, n.h), w |-> BroadcastDim(m.w, n.w),
         px |-> [p \in (0..(BroadcastDim(m.h, n.h) - 1))
                       \X (0..(BroadcastDim(m.w, n.w) - 1)) |->
                    Frac(At(m, p), At(n, p))]]

\* Stitcher._reduce: the exception it raises, "none" if it returns.
ReduceError(a, img, nc, nr, m) ==
    IF NormMapError(a, img, nc, nr) # "none"
    THEN NormMapError(a, img, nc, nr)
    ELSE IF ~Broadcastable(m, NormMap(a, img, nc, nr))
    THEN "RuntimeError"
    ELSE "none"

---------------------------------------------------------------------------
(* Actions of the dense stitcher *)

\* One invocation of self.model, as logged in calls: the patches of the
\* b-th batch, and whether the model raised.
Invocation(b, raised) ==
    [patches |-> BatchOf(b, npatches, args.batch_size), raised |-> raised]

\* Stitcher.__init__
Construct ==
    /\ pc = "new"
    /\ kind = "Stitcher"
    /\ IF args.reduction \in {"sum", "mean", "max"}
       THEN pc' = "constructed" /\ error' = error
       ELSE pc' = "failed" /\ error' = Raised("AssertionError", "__init__")
    /\ UNCHANGED <<kind, args, image, model, ncol, nrow, npatches, batch,
                   calls, maps, patched, reduced, result>>

\* __call__, step 1: ImageToPatches.__init__ and make_patches.
MakePatches ==
    /\ pc = "constructed"
    /\ IF TilingOK(args.size, args.overlap)
       THEN /\ ncol' = TilesH(image, args.size, args.overlap)
            /\ nrow' = TilesW(image, args.size, args.overlap)
            /\ npatches' = TilesH(image, args.size, args.overlap)
                             * TilesW(image, args.size, args.overlap)
            /\ pc' = "inference"
            /\ error' = error
       ELSE /\ pc' = "failed"
            /\ error' = Raised("ConfigurationError", "make_patches")
            /\ UNCHANGED <<ncol, nrow, npatches>>
    /\ UNCHANGED <<kind, args, image, model, batch, calls, maps, patched,
                   reduced, result>>

\* Stitcher._inference, one iteration of the loop: the model returns.
Inference ==
    /\ pc = "inference"
    /\ kind = "Stitcher"
    /\ batch < NumBatches(npatches, args.batch_size)
    /\ batch' = batch + 1
    /\ calls' = Append(calls, Invocation(batch + 1, FALSE))
    /\ maps' = Append(maps,
                 [t \in 1..Len(BatchOf(batch + 1, npatches, args.batch_size)) |->
                     ModelOutput(model, args,
                         BatchOf(batch + 1, npatches, args.batch_size)[t])])
    /\ UNCHANGED <<kind, args, image, model, pc, ncol, nrow, npatches,
                   patched, reduced, result, error>>

\* Faulty variant of the failing iteration: the exception is swallowed and
\* the loop goes on with the next batch.
InferenceSkipsFailedBatch ==
    /\ pc = "inference"
    /\ batch < NumBatches(npatches, args.batch_size)
    /\ batch' = batch + 1
    /\ calls' = Append(calls, Invocation(batch + 1, TRUE))
    /\ UNCHANGED <<kind, args, image, model, pc, ncol, nrow, npatches, maps,
                   patched, reduced, result, error>>

\* _inference, one iteration of the loop: the model raises.  Nothing
\* catches the exception, which leaves _inference and __call__ as it is.
InferenceRaises ==
    /\ pc = "inference"
    /\ batch < NumBatches(npatches, args.batch_size)
    /\ batch' = batch + 1
    /\ calls' = Append(calls, Invocation(batch + 1, TRUE))
    /\ pc' = "failed"
    /\ error' = Raised("ModelException", "model")
    /\ UNCHANGED <<kind, args, image, model, ncol, nrow, npatches, maps,
                   patched, reduced, result>>

\* __call__, step 3: _inference has returned; Stitcher._patch_maps.
PatchMapsStep ==
    /\ pc = "inference"
    /\ kind = "Stitcher"
    /\ batch = NumBatches(npatches, args.batch_size)
    /\ IF PatchMapsOK(args, ncol, nrow, Flatten(maps))
       THEN /\ patched' = PatchMaps(args, image, ncol, nrow, Flatten(maps))
            /\ pc' = "reduce"
            /\ error' = error
       ELSE /\ pc' = "failed"
            /\ error' = Raised("RuntimeError", "_patch_maps")
            /\ UNCHANGED patched
    /\ UNCHANGED <<kind, args, image, model, ncol, nrow, npatches, batch,
                   calls, maps, reduced, result>>

\* __call__, step 3 continued: Stitcher._reduce, then return (up is False).
Reduce ==
    /\ pc = "reduce"
    /\ kind = "Stitcher"
    /\ IF ReduceError(args, image, ncol, nrow, patched) = "none"
       THEN /\ result' = Div(patched, NormMap(args, image, ncol, nrow))
            /\ pc' = "done"
            /\ error' = error
       ELSE /\ pc' = "failed"
            /\ error' = Raised(ReduceError(args, image, ncol, nrow, patched),
                               "_reduce")
            /\ UNCHANGED result
    /\ UNCHANGED <<kind, args, image, model, ncol, nrow, npatches, batch,
                   calls, maps, patched, reduced>>

---------------------------------------------------------------------------
(* FasterRCNNStitcher: box detections *)

\* Bounds of the detection model
MaxDets == 3
MaxPerPatch == 2

DetImageDims == {2, 3}
DetPatchSizes == {<<2, 2>>, <<2, 3>>}
ScoreThresholds == {0, 3}
NmsThresholds == {[num |-> 1, den |-> 2]}

\* Detections the model may report for a patch: a box (x1, y1, x2, y2) in
\* patch-local pixels, a label and a score (in tenths).
Detections ==
    { [box |-> <<0, 0, 4, 2>>, label |-> 1, score |-> 5],
      [box |-> <<1, 0, 5, 2>>, label |-> 2, score |-> 5],
      [box |-> <<0, 0, 4, 2>>, label |-> 2, score |-> 3],
      [box |-> <<1, 0, 5, 2>>, label |-> 1, score |-> 3] }

DetLists ==
    UNION { [1..n -> Detections] : n \in 0..MaxPerPatch }

\* The model's output dict for one patch reporting the detections ds.
DetOutput(ds) ==
    [boxes  |-> [j \in 1..Len(ds) |-> ds[j].box],
     labels |-> [j \in 1..Len(ds) |-> ds[j].label],
     scores |-> [j \in 1..Len(ds) |-> ds[j].score]]

\* Number of detections held by the list of output dicts ms.
TotalDets(ms) == SumSeq([i \in 1..Len(ms) |-> Len(ms[i].boxes)])

\* Faulty variant of new_box: x_min is added to every coordinate.
NewBoxXOnly(box, limit) ==
    <<box[1] + limit.x_min, box[2] + limit.x_min,
      box[3] + limit.x_min, box[4] + limit.x_min>>

\* _patch_maps: new_box
NewBox(box, limit) ==
    <<box[1] + limit.x_min, box[2] + limit.y_min,
      box[3] + limit.x_min, box[4] + limit.y_min>>

\* FasterRCNNStitcher._patch_maps: boxes, labels and scores are each
\* concatenated over zip(maps, limits).
PatchMapsRCNN(ms, size, o, nw) ==
    [boxes  |-> Flatten([i \in 1..Len(ms) |->
                   [j \in 1..Len(ms[i].boxes) |->
                       NewBox(ms[i].boxes[j], LimitOf(i, size, o, nw))]]),
     labels |-> Flatten([i \in 1..Len(ms) |-> ms[i].labels]),
     scores |-> Flatten([i \in 1..Len(ms) |-> ms[i].scores])]

\* torchvision.ops.nms: intersection over union of two boxes above thr,
\* compared exactly (inter / union > num / den).
BoxArea(b) == (b[3] - b[1]) * (b[4] - b[2])

BoxInter(a, b) ==
    Max(0, Min(a[3], b[3]) - Max(a[1], b[1]))
      * Max(0, Min(a[4], b[4]) - Max(a[2], b[2]))

IoUAbove(a, b, thr) ==
    BoxInter(a, b) * thr.den
      > thr.num * (BoxArea(a) + BoxArea(b) - BoxInter(a, b))

\* Faulty variant of the suppression test: only detections of the same
\* label suppress each other (torchvision.ops.batched_nms).
SuppressesSameLabel(d, i, j, thr) ==
    /\ IoUAbove(d.boxes[i], d.boxes[j], thr)
    /\ d.labels[i] = d.labels[j]

\* nms(map['boxes'], map['scores'], ...): whether the kept i-th detection
\* of d suppresses the j-th; the labels are not given to nms.
Suppresses(d, i, j, thr) == IoUAbove(d.boxes[i], d.boxes[j], thr)

\* The orders in which nms may visit n detections: by decreasing score,
\* equal scores in any order.
ScoreOrders(scores) ==
    { o \in [1..Len(scores) -> 1..Len(scores)] :
        /\ \A i, j \in 1..Len(scores) : i # j => o[i] # o[j]
        /\ \A i \in 1..(Len(scores) - 1) : scores[o[i]] >= scores[o[i + 1]] }

\* torchvision.ops.nms: visit the detections in order; keep one unless a
\* detection kept before suppresses it.
RECURSIVE NmsKeep(_, _, _, _)
NmsKeep(order, keep, d, thr) ==
    IF Len(order) = 0 THEN keep
    ELSE IF \E t \in 1..Len(keep) : Suppresses(d, keep[t], order[1], thr)
         THEN NmsKeep(Tail(order), keep, d, thr)
         ELSE NmsKeep(Tail(order), Append(keep, order[1]), d, thr)

\* map[...][indices]
Gather(d, indices) ==
    [indices |-> indices,
     boxes  |-> [t \in 1..Len(indices) |-> d.boxes[indices[t]]],
     labels |-> [t \in 1..Len(indices) |-> d.labels[indices[t]]],
     scores |-> [t \in 1..Len(indices) |-> d.scores[indices[t]]]]

\* Faulty variant of the score test: not strict.
AtOrAboveThreshold(score, thr) == score >= thr

\* reduced['scores'] > self.score_threshold
AboveThreshold(score, thr) == score > thr

\* torch.nonzero(mask): the positions of scores that pass, in order.
RECURSIVE Nonzero(_, _, _)
Nonzero(scores, thr, t) ==
    IF t > Len(scores) THEN <<>>
    ELSE IF AboveThreshold(scores[t], thr)
         THEN <<t>> \o Nonzero(scores, thr, t + 1)
         ELSE Nonzero(scores, thr, t + 1)

NoDets == [indices |-> <<>>, boxes |-> <<>>, labels |-> <<>>, scores |-> <<>>]

NoStitchedDets == [boxes |-> <<>>, labels |-> <<>>, scores |-> <<>>]

\* FasterRCNNStitcher.__init__: Stitcher.__init__ with the default
\* reduction, which passes its assertions.
ConstructRCNN ==
    /\ pc = "new"
    /\ kind = "FasterRCNNStitcher"
    /\ pc' = "constructed"
    /\ UNCHANGED <<kind, args, image, model, ncol, nrow, npatches, batch,
                   calls, maps, patched, reduced, result, error>>

\* FasterRCNNStitcher._inference, one iteration of the loop: the model
\* returns a list outs of one dict per patch of the batch, and
\* maps.append(*outputs) takes exactly one argument.
InferenceRCNN ==
    /\ pc = "inference"
    /\ kind = "FasterRCNNStitcher"
    /\ batch < NumBatches(npatches, args.batch_size)
    /\ \E outs \in [1..Len(BatchOf(batch + 1, npatches, args.batch_size))
                      -> DetLists] :
          /\ TotalDets(maps) + SumSeq([t \in 1..Len(outs) |-> Len(outs[t])])
               <= MaxDets
          /\ batch' = batch + 1
          /\ calls' = Append(calls, Invocation(batch + 1, FALSE))
          /\ IF Len(outs) = 1
             THEN /\ maps' = Append(maps, DetOutput(outs[1]))
                  /\ UNCHANGED <<pc, error>>
             ELSE /\ pc' = "failed"
                  /\ error' = Raised("TypeError", "_inference")
                  /\ UNCHANGED maps
    /\ UNCHANGED <<kind, args, image, model, ncol, nrow, npatches, patched,
                   reduced, result>>

\* __call__, step 3: _inference has returned; FasterRCNNStitcher._patch_maps.
PatchMapsStepRCNN ==
    /\ pc = "inference"
    /\ kind = "FasterRCNNStitcher"
    /\ batch = NumBatches(npatches, args.batch_size)
    /\ patched' = PatchMapsRCNN(maps, args.size, args.overlap, nrow)
    /\ pc' = "reduce"
    /\ UNCHANGED <<kind, args, image, model, ncol, nrow, npatches, batch,
                   calls, maps, reduced, result, error>>

\* __call__, step 3 continued: FasterRCNNStitcher._reduce, then return.
ReduceRCNN ==
    /\ pc = "reduce"
    /\ kind = "FasterRCNNStitcher"
    /\ IF Len(patched.boxes) = 0
       THEN /\ result' = [indices |-> <<>>, boxes |-> patched.boxes,
                          labels |-> patched.labels, scores |-> patched.scores]
            /\ UNCHANGED reduced
       ELSE \E order \in ScoreOrders(patched.scores) :
              /\ reduced' = Gather(patched,
                              NmsKeep(order, <<>>, patched,
                                      args.nms_threshold))
              /\ result' = Gather(reduced',
                             Nonzero(reduced'.scores, args.score_threshold, 1))
    /\ pc' = "done"
    /\ UNCHANGED <<kind, args, image, model, ncol, nrow, npatches, batch,
                   calls, maps, patched, error>>

InitRCNN ==
    /\ kind = "FasterRCNNStitcher"
    /\ args \in [size : DetPatchSizes, overlap : 0..MaxOverlap,
                 batch_size : 1..MaxBatch, down_ratio : {1},
                 reduction : {"sum"}, nms_threshold : NmsThresholds,
                 score_threshold : ScoreThresholds]
    /\ image \in [C : {3}, H : DetImageDims, W : DetImageDims]
    /\ image.H >= args.size[1]
    /\ image.W >= args.size[2]
    /\ model = "detector"
    /\ pc = "new"
    /\ ncol = 0
    /\ nrow = 0
    /\ npatches = 0
    /\ batch = 0
    /\ calls = <<>>
    /\ maps = <<>>
    /\ patched = NoStitchedDets
    /\ reduced = NoDets
    /\ result = NoDets
    /\ error = NoError

NextRCNN ==
    \/ ConstructRCNN
    \/ MakePatches
    \/ InferenceRCNN
    \/ InferenceRaises
    \/ PatchMapsStepRCNN
    \/ ReduceRCNN

SpecRCNN == InitRCNN /\ [][NextRCNN]_vars

---------------------------------------------------------------------------
(* The dense stitcher as a whole *)

Init ==
    /\ kind = "Stitcher"
    /\ args \in [size : PatchSizes, overlap : 0..MaxOverlap,
                 batch_size : 1..MaxBatch, down_ratio : DownRatios,
                 reduction : Reductions]
    /\ image \in [C : Channels, H : 1..MaxH, W : 1..MaxW]
    /\ image.H >= args.size[1]
    /\ image.W >= args.size[2]
    /\ model \in DenseModels
    /\ pc = "new"
    /\ ncol = 0
    /\ nrow = 0
    /\ npatches = 0
    /\ batch = 0
    /\ calls = <<>>
    /\ maps = <<>>
    /\ patched = NoMap
    /\ reduced = NoMap
    /\ result = NoMap
    /\ error = NoError

Next ==
    \/ Construct
    \/ MakePatches
    \/ Inference
    \/ InferenceRaises
    \/ PatchMapsStep
    \/ Reduce

Spec == Init /\ [][Next]_vars

---------------------------------------------------------------------------
(* Properties *)

Stitched == pc = "done"

DownH == image.H \div args.down_ratio

DownW == image.W \div args.down_ratio

\* The patches whose box, in the coordinates of the stitched map, covers
\* pixel p.
CoveringPatches(p) ==
    { i \in 1..npatches :
        /\ Covers(GridPos(i, nrow)[1] * FoldStride(args)[1], KernelSize(args)[1], p[1])
        /\ Covers(GridPos(i, nrow)[2] * FoldStride(args)[2], KernelSize(args)[2], p[2]) }

\* The value the i-th patch gives to pixel p of the stitched map.
PatchValueAt(i, p) ==
    ModelOutput(model, args, i).px[
        <<p[1] - GridPos(i, nrow)[1] * FoldStride(args)[1],
          p[2] - GridPos(i, nrow)[2] * FoldStride(args)[2]>>]

SetMax(S) == CHOOSE v \in S : \A w \in S : v >= w

\* The plain tiling: each patch's output at its grid offset, row-major,
\* cropped to the downsized image.
PlainTiling ==
    [h |-> DownH, w |-> DownW,
     px |-> [p \in (0..(DownH - 1)) \X (0..(DownW - 1)) |->
                Frac(ModelOutput(model, args,
                        (p[1] \div KernelSize(args)[1]) * nrow
                          + (p[2] \div KernelSize(args)[2]) + 1).px[
                            <<p[1] % KernelSize(args)[1],
                              p[2] % KernelSize(args)[2]>>], 1)]]

\* C1: with overlap 0 the stitched map is the plain non-overlapping tiling
\* of the patch outputs, whichever the reduction ('sum', 'mean' or 'max').
C1_OverlapZeroIsPlainTiling ==
    (Stitched /\ args.overlap = 0) => result = PlainTiling

\* C2: in 'max' reduction every pixel of the stitched map is the maximum of
\* the values given to it by the patches whose box covers it.
C2_MaxOverCoveringPatches ==
    (Stitched /\ args.reduction = "max") =>
        /\ result.h = DownH
        /\ result.w = DownW
        /\ \A p \in (0..(DownH - 1)) \X (0..(DownW - 1)) :
              /\ CoveringPatches(p) # {}
              /\ result.px[p] =
                   Frac(SetMax({PatchValueAt(i, p) : i \in CoveringPatches(p)}), 1)

ConstantModel == model.step = 0 /\ model.tex = 0

\* C3: in 'mean' reduction with a model that returns the constant v for
\* every patch, __call__ returns the map equal to v everywhere, of shape
\* (H // down_ratio, W // down_ratio), for every number of channels C >= 1,
\* valid patch size and overlap and down_ratio >= 1.
C3_MeanOfConstantIsConstant ==
    (args.reduction = "mean" /\ ConstantModel /\ TilingOK(args.size, args.overlap)) =>
        /\ pc = "failed" => error.type = "ModelException"
        /\ Stitched =>
              /\ result.h = DownH
              /\ result.w = DownW
              /\ \A p \in (0..(DownH - 1)) \X (0..(DownW - 1)) :
                    result.px[p] = Frac(model.base, 1)

\* The consecutive batches of the patches in grid order, each invoked once.
CallsAreConsecutiveBatches ==
    /\ Len(calls) = batch
    /\ \A b \in 1..Len(calls) :
          calls[b].patches = BatchOf(b, npatches, args.batch_size)

\* C4: for every batch_size and number of patches, _inference invokes the
\* model once per batch of consecutive patches and returns one output per
\* patch, in order (here for FasterRCNNStitcher).
C4_OneOutputPerPatch ==
    /\ error.where # "_inference"
    /\ CallsAreConsecutiveBatches
    /\ pc \in {"reduce", "done"} =>
          /\ batch = NumBatches(npatches, args.batch_size)
          /\ Len(maps) = npatches

\* Position in the concatenation of the first detection of the i-th patch.
DetOffset(i) == TotalDets(SubSeq(maps, 1, i - 1))

\* C5: _patch_maps maps the j-th detection of the i-th patch to one
\* detection whose box is the local box with the patch's (x_min, y_min)
\* added to both corners, with the same label and score; boxes, labels and
\* scores stay aligned.
C5_BoxesTranslatedAndAligned ==
    (kind = "FasterRCNNStitcher" /\ pc \in {"reduce", "done"}) =>
        /\ Len(patched.boxes) = TotalDets(maps)
        /\ Len(patched.labels) = TotalDets(maps)
        /\ Len(patched.scores) = TotalDets(maps)
        /\ \A i \in 1..Len(maps) : \A j \in 1..Len(maps[i].boxes) :
              LET lim == LimitOf(i, args.size, args.overlap, nrow)
                  box == maps[i].boxes[j]
              IN  /\ patched.boxes[DetOffset(i) + j] =
                        <<box[1] + lim.x_min, box[2] + lim.y_min,
                          box[3] + lim.x_min, box[4] + lim.y_min>>
                  /\ patched.labels[DetOffset(i) + j] = maps[i].labels[j]
                  /\ patched.scores[DetOffset(i) + j] = maps[i].scores[j]

\* C5 witness: a patch without detections precedes a patch, at a non-zero
\* x_min and y_min, that has some.
C5_Witness ==
    /\ kind = "FasterRCNNStitcher"
    /\ pc = "reduce"
    /\ \E i, k \in 1..Len(maps) :
          /\ i < k
          /\ Len(maps[i].boxes) = 0
          /\ Len(maps[k].boxes) > 0
          /\ LimitOf(k, args.size, args.overlap, nrow).x_min > 0
          /\ LimitOf(k, args.size, args.overlap, nrow).y_min > 0

\* Whether the p-th stitched detection (an index of patched) is kept by nms,
\* and whether it is in the output of _reduce.
KeptByNms(p) == \E t \in 1..Len(reduced.indices) : reduced.indices[t] = p

InOutput(p) ==
    \E u \in 1..Len(result.indices) : reduced.indices[result.indices[u]] = p

\* Pairs of stitched detections with IoU above nms_threshold, the first
\* with the higher score.
DuplicatePairs ==
    { ab \in (1..Len(patched.boxes)) \X (1..Len(patched.boxes)) :
        /\ IoUAbove(patched.boxes[ab[1]], patched.boxes[ab[2]], args.nms_threshold)
        /\ patched.scores[ab[1]] > patched.scores[ab[2]] }

\* No two detections of the output have IoU above nms_threshold.
NoOverlapInOutput ==
    \A u, v \in 1..Len(result.boxes) :
        u # v => ~IoUAbove(result.boxes[u], result.boxes[v], args.nms_threshold)

\* C6 as stated: of two detections with IoU above nms_threshold, _reduce
\* outputs the higher-scoring one and only that one.
C6_OnlyHigherScoringSurvives ==
    (kind = "FasterRCNNStitcher" /\ Stitched) =>
        /\ \A ab \in DuplicatePairs : InOutput(ab[1]) /\ ~InOutput(ab[2])
        /\ NoOverlapInOutput

\* C6 amended: of two detections with IoU above nms_threshold at most one
\* is output; the lower-scoring one is output only if a third detection,
\* kept by nms and scoring at least as high as the higher-scoring one,
\* suppressed the latter; the higher-scoring one is output if and only if
\* nms keeps it and its score exceeds score_threshold.  No two detections
\* of the output have IoU above nms_threshold, whatever their labels.
C6_AtMostOneSurvives ==
    (kind = "FasterRCNNStitcher" /\ Stitched) =>
        /\ NoOverlapInOutput
        /\ \A ab \in DuplicatePairs :
              /\ ~(InOutput(ab[1]) /\ InOutput(ab[2]))
              /\ InOutput(ab[1]) <=>
                    (KeptByNms(ab[1])
                       /\ patched.scores[ab[1]] > args.score_threshold)
              /\ InOutput(ab[2]) =>
                    \E c \in 1..Len(patched.boxes) :
                        /\ c # ab[1]
                        /\ c # ab[2]
                        /\ KeptByNms(c)
                        /\ patched.scores[c] >= patched.scores[ab[1]]
                        /\ IoUAbove(patched.boxes[c], patched.boxes[ab[1]],
                                    args.nms_threshold)

\* C6 witness: two patches report the same object with different labels,
\* and only the higher-scoring detection is output.
C6_Witness ==
    /\ kind = "FasterRCNNStitcher"
    /\ Stitched
    /\ Len(maps) >= 2
    /\ \E ab \in DuplicatePairs :
          /\ ab[1] <= Len(maps[1].boxes)
          /\ ab[2] > Len(maps[1].boxes)
          /\ patched.labels[ab[1]] # patched.labels[ab[2]]
          /\ InOutput(ab[1])
          /\ ~InOutput(ab[2])

\* C7: every detection output by _reduce has a score strictly above
\* score_threshold, and every detection kept by nms whose score is above
\* score_threshold is output, with its box, label and score.
C7_ScoreStrictlyAboveThreshold ==
    (kind = "FasterRCNNStitcher" /\ Stitched) =>
        /\ \A u \in 1..Len(result.scores) :
              result.scores[u] > args.score_threshold
        /\ Len(result.boxes) = Len(result.scores)
        /\ Len(result.labels) = Len(result.scores)
        /\ \A t \in 1..Len(reduced.scores) :
              reduced.scores[t] > args.score_threshold =>
                 \E u \in 1..Len(result.scores) :
                    /\ result.indices[u] = t
                    /\ result.boxes[u] = reduced.boxes[t]
                    /\ result.labels[u] = reduced.labels[t]
                    /\ result.scores[u] = reduced.scores[t]

\* C7 witness: nms keeps one detection whose score equals score_threshold,
\* which is dropped, and one above it, which is output.
C7_Witness ==
    /\ kind = "FasterRCNNStitcher"
    /\ Stitched
    /\ \E t \in 1..Len(reduced.scores) :
          reduced.scores[t] = args.score_threshold
    /\ Len(result.scores) > 0
    /\ Len(result.scores) < Len(reduced.scores)

\* C8: a stitcher with a non-positive stride is never constructed: its
\* construction fails.
C8_NonPositiveStrideFailsAtConstruction ==
    ~TilingOK(args.size, args.overlap) =>
        /\ pc \in {"new", "failed"}
        /\ pc = "failed" => error.where = "__init__"

\* Whether the model has raised in some invocation.
ModelRaised == \E b \in 1..Len(calls) : calls[b].raised

C10_OutputSizeMatchesStride ==
    (kind = "Stitcher" /\ pc \in {"inference", "reduce", "done"}) =>
        /\ OutputSize(args, ncol, nrow)[1] =
             ncol * KernelSize(args)[1]
               - (ncol - 1) * (args.overlap \div args.down_ratio)
        /\ OutputSize(args, ncol, nrow)[2] =
             nrow * KernelSize(args)[2]
               - (nrow - 1) * (args.overlap \div args.down_ratio)
        /\ FoldStride(args)[1] > 0 =>
             NumBlocks(OutputSize(args, ncol, nrow)[1], KernelSize(args)[1],
                       FoldStride(args)[1]) = ncol
        /\ FoldStride(args)[2] > 0 =>
             NumBlocks(OutputSize(args, ncol, nrow)[2], KernelSize(args)[2],
                       FoldStride(args)[2]) = nrow

====
